---------------------------- MODULE Spec2Model ----------------------------
(***************************************************************************)
(* Model of the AI image editor page (src/App.tsx): the Encoder            *)
(* (fileToData), the Edit Client (editImageWithPrompt) and the controller  *)
(* state of the App component with its handlers.                           *)
(*                                                                         *)
(* JavaScript strings are sequences of lexemes.  The separator characters  *)
(* the code looks at (":", ";" and ",") are always a lexeme of their own;  *)
(* every other lexeme is a run of characters holding no separator, so      *)
(* String.split(","), the regular expression /:(.*?);/ and template        *)
(* concatenation act on lexemes exactly as they act on characters.  A run  *)
(* of white space is the lexeme " ".  null and undefined are the reserved  *)
(* values Null and Undefined.                                              *)
(***************************************************************************)
EXTENDS Naturals, Sequences, FiniteSets

VARIABLES
    uploadedImageFile,     \* useState<File|null>            (App.tsx:49)
    uploadedImagePreview,  \* useState<string|null>          (App.tsx:50)
    prompt,                \* useState<string>               (App.tsx:51)
    generatedImage,        \* useState<string|null>          (App.tsx:52)
    isLoading,             \* useState<boolean>              (App.tsx:53)
    error,                 \* useState<string|null>          (App.tsx:54)
    reads,                 \* fileToData promises pending in handleFileChange
    requests               \* handleGenerate invocations suspended at an await

vars == <<uploadedImageFile, uploadedImagePreview, prompt, generatedImage,
          isLoading, error, reads, requests>>

-----------------------------------------------------------------------------
(* Bounds of the model *)

\* Asynchronous operations (file reads and generate attempts) outstanding at once.
MaxPending == 2

-----------------------------------------------------------------------------
(* JavaScript values *)

Null == <<"<null>">>
Undefined == <<"<undefined>">>

\* a || b
Truthy(v) == v \notin {Null, Undefined, <<>>}
OrElse(a, b) == IF Truthy(a) THEN a ELSE b

\* `${v}` : undefined prints as the text "undefined"
ToText(v) == IF v = Undefined THEN <<"undefined">>
             ELSE IF v = Null THEN <<"null">> ELSE v

WhiteSpace == {" "}

RECURSIVE TrimStart(_)
TrimStart(s) == IF s # <<>> /\ Head(s) \in WhiteSpace THEN TrimStart(Tail(s)) ELSE s

RECURSIVE TrimEnd(_)
TrimEnd(s) == IF s # <<>> /\ s[Len(s)] \in WhiteSpace
              THEN TrimEnd(SubSeq(s, 1, Len(s) - 1)) ELSE s

\* String.prototype.trim
Trim(s) == TrimEnd(TrimStart(s))

\* first index >= from at which s holds c, 0 when there is none
IndexOf(s, c, from) ==
    IF \E k \in from..Len(s) : s[k] = c
    THEN CHOOSE k \in from..Len(s) : s[k] = c /\ \A m \in from..(k - 1) : s[m] # c
    ELSE 0

\* String.prototype.split(sep): every piece between separators
RECURSIVE Split(_, _)
Split(s, sep) ==
    LET k == IndexOf(s, sep, 1) IN
    IF k = 0 THEN <<s>>
    ELSE <<SubSeq(s, 1, k - 1)>> \o Split(SubSeq(s, k + 1, Len(s)), sep)

\* the expression without its leading ":" : /(.*?);/
MatchMime_NoColon(header) ==
    LET j == IndexOf(header, ";", 1)
    IN  IF j = 0 THEN Undefined ELSE SubSeq(header, 1, j - 1)

\* header.match(/:(.*?);/)?.[1] : the text between the first ":" and the
\* first ";" after it, undefined when the expression does not match
MatchMime(header) ==
    LET i == IndexOf(header, ":", 1)
        j == IF i = 0 THEN 0 ELSE IndexOf(header, ";", i + 1)
    IN  IF j = 0 THEN Undefined ELSE SubSeq(header, i + 1, j - 1)

RemoveAt(s, i) == SubSeq(s, 1, i - 1) \o SubSeq(s, i + 1, Len(s))

ErrorObj(msg) == [name |-> "Error", message |-> msg]
\* the event FileReader hands to onerror: it has no message property
ProgressEvent == [type |-> "error"]
MessageOf(err) == IF "message" \in DOMAIN err THEN err.message ELSE Undefined

-----------------------------------------------------------------------------
(* Messages *)

CouldNotReadMsg == <<"Could not read the selected file.">>
ValidationMsg == <<"Please upload an image and enter a prompt.">>
UnknownErrorMsg == <<"An unknown error occurred.">>
NoImageMsg == <<"No image data was found in the API response.">>
GenerationFailedMsg ==
    <<"Failed to generate the image due to an API error. Please check the console and try again.">>


-----------------------------------------------------------------------------
(* Encoder: fileToData *)

\* A File is <<name, type, base64 of its bytes>>.
FileName(f) == f[1]
FileType(f) == f[2]
FileBytes(f) == f[3]

PngFile == <<"photo.png", <<"image/png">>, <<"QUJD">>>>
\* an empty file of a kind the browser knows no type for
BlankFile == <<"notes", <<>>, <<>>>>
Files == {PngFile, BlankFile}

OctetStream == <<"application/octet-stream">>

\* `data:${mime};base64,${data}`
DataUri(mime, data) ==
    <<"data", ":">> \o ToText(mime) \o <<";", "base64", ",">> \o ToText(data)

\* The strings FileReader.readAsDataURL can put in reader.result.  The File
\* API leaves the media type out when the file has none ("data:;base64,..."),
\* browsers may substitute application/octet-stream, and for a file of no
\* bytes some browsers give the bare string "data:".
ReadAsDataURL(f) ==
    {DataUri(FileType(f), FileBytes(f))}
        \cup (IF FileType(f) = <<>> THEN {DataUri(OctetStream, FileBytes(f))} ELSE {})
        \cup (IF FileBytes(f) = <<>> THEN {<<"data", ":">>} ELSE {})

\* How a read ends: onload with reader.result, or onerror with the event.
ReadOutcomes(f) ==
    {[ok |-> TRUE, result |-> r] : r \in ReadAsDataURL(f)}
        \cup {[ok |-> FALSE, reason |-> ProgressEvent]}

\* reader.onload: what the promise resolves to
FileToData(result) ==
    LET parts == Split(result, ",")
        header == parts[1]
        data == IF Len(parts) >= 2 THEN parts[2] ELSE Undefined
        mimeType == OrElse(MatchMime(header), OctetStream)
    IN  [base64 |-> data, mimeType |-> mimeType, dataUrl |-> result]

-----------------------------------------------------------------------------
(* Edit Client: editImageWithPrompt *)

TextPart(t) == [text |-> t]
InlinePart(mime, data) == [inlineData |-> [mimeType |-> mime, data |-> data]]
Candidate(parts) == [content |-> [parts |-> parts]]
Response(candidates) == [candidates |-> candidates]

PngPart == InlinePart(<<"image/png">>, <<"X">>)
WebpPart == InlinePart(<<"image/webp">>, <<"Y">>)
NoImagePart == TextPart(<<"no image">>)

\* Responses of ai.models.generateContent
Responses ==
    { Response(<<Candidate(<<PngPart>>)>>),
      Response(<<Candidate(<<NoImagePart, WebpPart>>)>>),
      Response(<<Candidate(<<WebpPart, NoImagePart, PngPart>>)>>),
      Response(<<Candidate(<<NoImagePart>>)>>),
      Response(<<Candidate(<<NoImagePart>>), Candidate(<<PngPart>>)>>),
      Response(<<Candidate(<<>>)>>),
      Response(<<>>) }

\* What the provider's client throws: auth, quota, malformed request, transport
ProviderErrors ==
    { ErrorObj(<<"API key not valid. Please pass a valid API key.">>),
      ErrorObj(<<"429 RESOURCE_EXHAUSTED">>),
      ErrorObj(<<"400 INVALID_ARGUMENT">>),
      ErrorObj(<<"fetch failed">>) }

ApiOutcomes ==
    {[ok |-> TRUE, response |-> r] : r \in Responses}
        \cup {[ok |-> FALSE, reason |-> e] : e \in ProviderErrors}

\* response.candidates?.[0]?.content?.parts || []
FirstCandidateParts(response) ==
    IF Len(response.candidates) = 0 THEN <<>>
    ELSE response.candidates[1].content.parts

\* a loop that keeps the last part with inlineData instead of returning at
\* the first
RECURSIVE ScanParts_Last(_)
ScanParts_Last(parts) ==
    IF parts = <<>> THEN [returned |-> FALSE]
    ELSE LET rest == ScanParts_Last(Tail(parts)) IN
         IF rest.returned THEN rest
         ELSE IF "inlineData" \in DOMAIN Head(parts)
              THEN [returned |-> TRUE,
                    value |-> DataUri(Head(parts).inlineData.mimeType,
                                      Head(parts).inlineData.data)]
              ELSE rest

\* the for loop over the parts: returns at the first part with inlineData
RECURSIVE ScanParts(_)
ScanParts(parts) ==
    IF parts = <<>> THEN [returned |-> FALSE]
    ELSE IF "inlineData" \in DOMAIN Head(parts)
         THEN [returned |-> TRUE,
               value |-> DataUri(Head(parts).inlineData.mimeType,
                                 Head(parts).inlineData.data)]
         ELSE ScanParts(Tail(parts))

\* the try block: the awaited call, the loop, the throw after the loop
TryBlock(outcome) ==
    IF ~outcome.ok THEN [threw |-> TRUE, error |-> outcome.reason]
    ELSE LET r == ScanParts(FirstCandidateParts(outcome.response)) IN
         IF r.returned THEN [threw |-> FALSE, value |-> r.value]
         ELSE [threw |-> TRUE, error |-> ErrorObj(NoImageMsg)]

\* a catch block that throws what it caught
EditImageWithPrompt_Rethrow(base64ImageData, mimeType, promptText, outcome) ==
    LET t == TryBlock(outcome) IN
    IF t.threw THEN [ok |-> FALSE, reason |-> t.error]
    ELSE [ok |-> TRUE, value |-> t.value]

\* The settled promise of editImageWithPrompt, given how the provider call
\* ended.  Whatever the try block throws, its own throw included, is caught
\* and replaced by the generic error.
EditImageWithPrompt(base64ImageData, mimeType, promptText, outcome) ==
    LET t == TryBlock(outcome) IN
    IF t.threw THEN [ok |-> FALSE, reason |-> ErrorObj(GenerationFailedMsg)]
    ELSE [ok |-> TRUE, value |-> t.value]

-----------------------------------------------------------------------------
(* Controller: the App component *)

Prompts == {<<>>, <<" ">>, <<"make the sky look like a galaxy">>}

Init ==
    /\ uploadedImageFile = Null
    /\ uploadedImagePreview = Null
    /\ prompt = <<>>
    /\ generatedImage = Null
    /\ isLoading = FALSE
    /\ error = Null
    /\ reads = <<>>
    /\ requests = <<>>

Pending == Len(reads) + Len(requests)

\* handleFileChange, up to the call of fileToData: the change event of the
\* file input carrying `file` (Undefined when the selection is empty).
HandleFileChange(file) ==
    /\ Truthy(file)
    /\ Pending < MaxPending
    /\ uploadedImageFile' = file
    /\ reads' = Append(reads, file)
    /\ UNCHANGED <<uploadedImagePreview, prompt, generatedImage, isLoading, error, requests>>

\* a .then callback that also resets the loading flag
FileReadSettled_ResetsLoading(i, outcome) ==
    /\ i \in DOMAIN reads
    /\ outcome \in ReadOutcomes(reads[i])
    /\ reads' = RemoveAt(reads, i)
    /\ IF outcome.ok
       THEN /\ uploadedImagePreview' = FileToData(outcome.result).dataUrl
            /\ generatedImage' = Null
            /\ error' = Null
            /\ isLoading' = FALSE
       ELSE /\ error' = CouldNotReadMsg
            /\ UNCHANGED <<uploadedImagePreview, generatedImage, isLoading>>
    /\ UNCHANGED <<uploadedImageFile, prompt, requests>>

\* handleFileChange, the .then and .catch callbacks: the read of reads[i]
\* ends with `outcome`.
FileReadSettled(i, outcome) ==
    /\ i \in DOMAIN reads
    /\ outcome \in ReadOutcomes(reads[i])
    /\ reads' = RemoveAt(reads, i)
    /\ IF outcome.ok
       THEN /\ uploadedImagePreview' = FileToData(outcome.result).dataUrl
            /\ generatedImage' = Null
            /\ error' = Null
       ELSE /\ error' = CouldNotReadMsg
            /\ UNCHANGED <<uploadedImagePreview, generatedImage>>
    /\ UNCHANGED <<uploadedImageFile, prompt, isLoading, requests>>

\* onChange of the textarea: setPrompt(e.target.value)
SetPrompt(value) ==
    /\ value # prompt
    /\ prompt' = value
    /\ UNCHANGED <<uploadedImageFile, uploadedImagePreview, generatedImage,
                   isLoading, error, reads, requests>>

\* a handleGenerate without setError(null)
HandleGenerate_KeepsError ==
    IF ~Truthy(uploadedImageFile) \/ ~Truthy(Trim(prompt))
    THEN /\ error' = ValidationMsg
         /\ UNCHANGED <<uploadedImageFile, uploadedImagePreview, prompt,
                        generatedImage, isLoading, reads, requests>>
    ELSE /\ Pending < MaxPending
         /\ isLoading' = TRUE
         /\ generatedImage' = Null
         /\ requests' = Append(requests, [stage |-> "reading",
                                         file |-> uploadedImageFile,
                                         prompt |-> prompt])
         /\ UNCHANGED <<uploadedImageFile, uploadedImagePreview, prompt, reads, error>>

\* a handleGenerate without setGeneratedImage(null)
HandleGenerate_KeepsResult ==
    IF ~Truthy(uploadedImageFile) \/ ~Truthy(Trim(prompt))
    THEN /\ error' = ValidationMsg
         /\ UNCHANGED <<uploadedImageFile, uploadedImagePreview, prompt,
                        generatedImage, isLoading, reads, requests>>
    ELSE /\ Pending < MaxPending
         /\ isLoading' = TRUE
         /\ error' = Null
         /\ requests' = Append(requests, [stage |-> "reading",
                                         file |-> uploadedImageFile,
                                         prompt |-> prompt])
         /\ UNCHANGED <<uploadedImageFile, uploadedImagePreview, prompt, reads,
                        generatedImage>>

\* a handleGenerate without setIsLoading(true)
HandleGenerate_NoLoadingFlag ==
    IF ~Truthy(uploadedImageFile) \/ ~Truthy(Trim(prompt))
    THEN /\ error' = ValidationMsg
         /\ UNCHANGED <<uploadedImageFile, uploadedImagePreview, prompt,
                        generatedImage, isLoading, reads, requests>>
    ELSE /\ Pending < MaxPending
         /\ error' = Null
         /\ generatedImage' = Null
         /\ requests' = Append(requests, [stage |-> "reading",
                                         file |-> uploadedImageFile,
                                         prompt |-> prompt])
         /\ UNCHANGED <<uploadedImageFile, uploadedImagePreview, prompt, reads,
                        isLoading>>

\* a validation that tests the prompt without trimming it
HandleGenerate_NoTrim ==
    IF ~Truthy(uploadedImageFile) \/ ~Truthy(prompt)
    THEN /\ error' = ValidationMsg
         /\ UNCHANGED <<uploadedImageFile, uploadedImagePreview, prompt,
                        generatedImage, isLoading, reads, requests>>
    ELSE /\ Pending < MaxPending
         /\ isLoading' = TRUE
         /\ error' = Null
         /\ generatedImage' = Null
         /\ requests' = Append(requests, [stage |-> "reading",
                                         file |-> uploadedImageFile,
                                         prompt |-> prompt])
         /\ UNCHANGED <<uploadedImageFile, uploadedImagePreview, prompt, reads>>

\* handleGenerate, up to its first await: the validation, the three state
\* updates and the start of the file read.
HandleGenerate ==
    IF ~Truthy(uploadedImageFile) \/ ~Truthy(Trim(prompt))
    THEN /\ error' = ValidationMsg
         /\ UNCHANGED <<uploadedImageFile, uploadedImagePreview, prompt,
                        generatedImage, isLoading, reads, requests>>
    ELSE /\ Pending < MaxPending
         /\ isLoading' = TRUE
         /\ error' = Null
         /\ generatedImage' = Null
         /\ requests' = Append(requests, [stage |-> "reading",
                                         file |-> uploadedImageFile,
                                         prompt |-> prompt])
         /\ UNCHANGED <<uploadedImageFile, uploadedImagePreview, prompt, reads>>

\* a catch block that only logs the error
CatchFinally_OnlyLogs(i, err) ==
    /\ isLoading' = FALSE
    /\ requests' = RemoveAt(requests, i)
    /\ UNCHANGED <<generatedImage, error>>

\* a catch block with no finally after it
CatchFinally_NoFinally(i, err) ==
    /\ error' = OrElse(MessageOf(err), UnknownErrorMsg)
    /\ requests' = RemoveAt(requests, i)
    /\ UNCHANGED <<generatedImage, isLoading>>

\* catch (err) { setError(err.message || ...) } finally { setIsLoading(false) }
CatchFinally(i, err) ==
    /\ error' = OrElse(MessageOf(err), UnknownErrorMsg)
    /\ isLoading' = FALSE
    /\ requests' = RemoveAt(requests, i)
    /\ UNCHANGED generatedImage

\* handleGenerate resumes from `await fileToData(uploadedImageFile)`: on
\* success it calls editImageWithPrompt, which sends the request.
GenerateReadSettled(i, outcome) ==
    /\ i \in DOMAIN requests
    /\ requests[i].stage = "reading"
    /\ outcome \in ReadOutcomes(requests[i].file)
    /\ IF outcome.ok
       THEN /\ requests' = [requests EXCEPT ![i] =
                               [stage |-> "calling",
                                file |-> requests[i].file,
                                prompt |-> requests[i].prompt,
                                enc |-> FileToData(outcome.result)]]
            /\ UNCHANGED <<generatedImage, isLoading, error>>
       ELSE CatchFinally(i, outcome.reason)
    /\ UNCHANGED <<uploadedImageFile, uploadedImagePreview, prompt, reads>>

\* handleGenerate resumes from `await editImageWithPrompt(...)`: the provider
\* call of request i ends with `outcome`.
ApiSettled(i, outcome) ==
    /\ i \in DOMAIN requests
    /\ requests[i].stage = "calling"
    /\ outcome \in ApiOutcomes
    /\ LET settled == EditImageWithPrompt(requests[i].enc.base64,
                                          requests[i].enc.mimeType,
                                          requests[i].prompt, outcome)
       IN  IF settled.ok
           THEN /\ generatedImage' = settled.value
                /\ isLoading' = FALSE
                /\ requests' = RemoveAt(requests, i)
                /\ UNCHANGED error
           ELSE CatchFinally(i, settled.reason)
    /\ UNCHANGED <<uploadedImageFile, uploadedImagePreview, prompt, reads>>

\* Every handler may run in every state.
Next ==
    \/ \E file \in Files \cup {Undefined} : HandleFileChange(file)
    \/ \E i \in DOMAIN reads : \E outcome \in ReadOutcomes(reads[i]) :
          FileReadSettled(i, outcome)
    \/ \E value \in Prompts : SetPrompt(value)
    \/ HandleGenerate
    \/ \E i \in DOMAIN requests :
          \E outcome \in UNION {ReadOutcomes(f) : f \in Files} :
             GenerateReadSettled(i, outcome)
    \/ \E i \in DOMAIN requests : \E outcome \in ApiOutcomes : ApiSettled(i, outcome)

Spec == Init /\ [][Next]_vars

-----------------------------------------------------------------------------
(* The rendered page: which handlers the user can reach *)

\* {uploadedImagePreview && ( ...controls... )}
ControlsRendered == Truthy(uploadedImagePreview)

\* disabled={!prompt.trim()}
GenerateDisabled_IgnoresLoading == ~Truthy(Trim(prompt))

\* disabled={isLoading || !prompt.trim()}
GenerateDisabled == isLoading \/ ~Truthy(Trim(prompt))

\* a click on the Generate / Regenerate button
ClickGenerate ==
    /\ ControlsRendered
    /\ ~GenerateDisabled
    /\ HandleGenerate

\* typing in the prompt textarea
TypePrompt(value) ==
    /\ ControlsRendered
    /\ SetPrompt(value)

\* The file input is mounted in every render, so it takes a change event in
\* every state; the prompt and the button exist only inside the controls.
UINext ==
    \/ \E file \in Files \cup {Undefined} : HandleFileChange(file)
    \/ \E i \in DOMAIN reads : \E outcome \in ReadOutcomes(reads[i]) :
          FileReadSettled(i, outcome)
    \/ \E value \in Prompts : TypePrompt(value)
    \/ ClickGenerate
    \/ \E i \in DOMAIN requests :
          \E outcome \in UNION {ReadOutcomes(f) : f \in Files} :
             GenerateReadSettled(i, outcome)
    \/ \E i \in DOMAIN requests : \E outcome \in ApiOutcomes : ApiSettled(i, outcome)

UISpec == Init /\ [][UINext]_vars

\* Every asynchronous operation eventually completes.
UIFairSpec ==
    /\ UISpec
    /\ WF_vars(\E i \in DOMAIN reads : \E outcome \in ReadOutcomes(reads[i]) :
                  FileReadSettled(i, outcome))
    /\ WF_vars(\E i \in DOMAIN requests :
                  \E outcome \in UNION {ReadOutcomes(f) : f \in Files} :
                     GenerateReadSettled(i, outcome))
    /\ WF_vars(\E i \in DOMAIN requests : \E outcome \in ApiOutcomes :
                  ApiSettled(i, outcome))

-----------------------------------------------------------------------------
(* Claims *)

AllReadOutcomes == UNION {ReadOutcomes(f) : f \in Files}

\* C1: whenever handleGenerate runs while no file is uploaded or the prompt is
\* empty or white space only, it starts no file read and no API call, leaves
\* isLoading as it was, and the error shown is the validation message.
C1_ValidationBlocksDispatch ==
    [][ (HandleGenerate /\ (uploadedImageFile = Null \/ Trim(prompt) = <<>>))
           => /\ error' = ValidationMsg
              /\ requests' = requests
              /\ reads' = reads
              /\ isLoading' = isLoading
              /\ generatedImage' = generatedImage ]_vars

\* handleGenerate has refused a white-space-only prompt with a file uploaded
C1_Witness ==
    /\ error = ValidationMsg
    /\ uploadedImageFile = PngFile
    /\ prompt = <<" ">>
    /\ requests = <<>>
    /\ ~isLoading

HasInline(parts) == \E k \in DOMAIN parts : "inlineData" \in DOMAIN parts[k]
FirstInline(parts) ==
    parts[CHOOSE k \in DOMAIN parts :
             /\ "inlineData" \in DOMAIN parts[k]
             /\ \A m \in 1..(k - 1) : "inlineData" \notin DOMAIN parts[m]]
PartsOf(response) ==
    IF response.candidates = <<>> THEN <<>> ELSE response.candidates[1].content.parts

\* C2: for every response whose first candidate has a part with inlineData,
\* the result is data:<mimeType>;base64,<data> of the first such part, with
\* the MIME type that part reports.
C2_FirstInlinePart ==
    [][ \A i \in DOMAIN requests :
           (requests[i].stage = "calling" /\ requests' # requests)
              => \A o \in ApiOutcomes :
                    (o.ok /\ HasInline(PartsOf(o.response)) /\ ApiSettled(i, o))
                       => LET part == FirstInline(PartsOf(o.response)).inlineData IN
                          generatedImage' =
                             <<"data", ":">> \o part.mimeType
                                \o <<";", "base64", ",">> \o part.data
      ]_vars

\* a webp result is displayed: it came from a part that followed a text part
\* or preceded a png part, for a source file that is a png
C2_Witness ==
    /\ generatedImage = <<"data", ":", "image/webp", ";", "base64", ",", "Y">>
    /\ uploadedImageFile = PngFile
    /\ ~isLoading

\* C3: when the call succeeds but no part of the first candidate carries
\* inline data, the error shown is the no-image message.
C3_NoImageMessage ==
    [][ \A i \in DOMAIN requests : \A o \in ApiOutcomes :
           (ApiSettled(i, o) /\ o.ok /\ ~HasInline(PartsOf(o.response)))
              => error' = NoImageMsg ]_vars

\* C4: whenever a read of the selected file fails, at selection or at the
\* re-read of handleGenerate, the error shown is "Could not read the selected
\* file.".
C4_ReadFailureMessage ==
    [][ /\ \A i \in DOMAIN reads : \A o \in AllReadOutcomes :
              (FileReadSettled(i, o) /\ ~o.ok) => error' = CouldNotReadMsg
        /\ \A i \in DOMAIN requests : \A o \in AllReadOutcomes :
              (GenerateReadSettled(i, o) /\ ~o.ok) => error' = CouldNotReadMsg ]_vars

\* C5: with no request in flight and a generated image displayed, once the
\* handling of a newly selected file completes, whether its read succeeds or
\* fails, generatedImage and error are null.
C5_NewFileClearsResult ==
    [][ \A i \in DOMAIN reads : \A o \in AllReadOutcomes :
           (FileReadSettled(i, o) /\ generatedImage # Null /\ requests = <<>>)
              => (generatedImage' = Null /\ error' = Null) ]_vars

\* C6 as stated, for a selection whose read succeeds (the reading most
\* favourable to it): in any controller state, once the selection of a new
\* file is handled, isLoading is false and generatedImage and error are null.
C6_Original ==
    [][ \A i \in DOMAIN reads : \A o \in AllReadOutcomes :
           (FileReadSettled(i, o) /\ o.ok)
              => (isLoading' = FALSE /\ generatedImage' = Null /\ error' = Null) ]_vars

\* C6 amended: in any controller state, once a newly selected file has been
\* read successfully, generatedImage and error are null, while isLoading and
\* the requests in flight are left as they were.
C6_NewFileKeepsLoading ==
    [][ \A i \in DOMAIN reads : \A o \in AllReadOutcomes :
           (FileReadSettled(i, o) /\ o.ok)
              => /\ generatedImage' = Null
                 /\ error' = Null
                 /\ isLoading' = isLoading
                 /\ requests' = requests ]_vars

\* a request for the png is still in flight after the selection of the other
\* file has been handled: its preview is shown and Loading goes on
C6_Witness ==
    /\ isLoading
    /\ Len(requests) = 1
    /\ requests[1].file = PngFile
    /\ uploadedImageFile = BlankFile
    /\ uploadedImagePreview \in ReadAsDataURL(BlankFile)
    /\ reads = <<>>
    /\ generatedImage = Null
    /\ error = Null

\* C7: every failure of the provider call ends in the same visible state,
\* whose error is the fixed generic message, whatever the provider's error.
C7_GenericFailure ==
    [][ \A i \in DOMAIN requests :
           (requests[i].stage = "calling" /\ requests' # requests)
              => \A e1 \in ProviderErrors :
                    ApiSettled(i, [ok |-> FALSE, reason |-> e1])
                       => /\ error' = GenerationFailedMsg
                          /\ error' \notin {e.message : e \in ProviderErrors}
                          /\ \A e2 \in ProviderErrors :
                                ApiSettled(i, [ok |-> FALSE, reason |-> e2]) ]_vars

\* an attempt has ended with the generic message
C7_Witness ==
    /\ error = GenerationFailedMsg
    /\ ~isLoading
    /\ generatedImage = Null
    /\ requests = <<>>

\* the attempt i ends in failure: its file re-read fails or editImageWithPrompt
\* rejects
AttemptFails(i) ==
    \/ \E o \in AllReadOutcomes : GenerateReadSettled(i, o) /\ ~o.ok
    \/ \E o \in ApiOutcomes :
          /\ ApiSettled(i, o)
          /\ ~(o.ok /\ HasInline(PartsOf(o.response)))

\* C8: every attempt that enters Loading eventually returns isLoading to
\* false (every asynchronous operation completing); and a failed attempt
\* leaves the button enabled for the same file and prompt, where a click
\* dispatches a new request.
C8_LoadingEndsAndRetry ==
    /\ isLoading ~> ~isLoading
    /\ [][ \A i \in DOMAIN requests :
              AttemptFails(i)
                 => /\ isLoading' = FALSE
                    /\ error' # Null
                    /\ (prompt' = requests[i].prompt /\ uploadedImageFile' = requests[i].file)
                          => (ControlsRendered' /\ ~GenerateDisabled') ]_vars
    /\ [][ ClickGenerate
              => /\ Len(requests') = Len(requests) + 1
                 /\ requests'[Len(requests')].stage = "reading"
                 /\ requests'[Len(requests')].file = uploadedImageFile
                 /\ isLoading' ]_vars

\* an attempt has failed at its file re-read: Loading is over and the button
\* is enabled again for the same file and prompt
C8_Witness ==
    /\ error = UnknownErrorMsg
    /\ ~isLoading
    /\ requests = <<>>
    /\ uploadedImageFile = PngFile
    /\ ControlsRendered
    /\ ~GenerateDisabled

\* C9: over the user actions the page offers, at most one edit request is in
\* flight at any time.
C9_OneRequestInFlight == Len(requests) <= 1

\* a request is in flight, the button is disabled, and the user has selected
\* another file meanwhile
C9_Witness ==
    /\ Len(requests) = 1
    /\ requests[1].stage = "calling"
    /\ GenerateDisabled
    /\ ControlsRendered
    /\ Len(reads) = 1

\* "data:" + mimeType + ";base64," + base64
Composed(enc) ==
    <<"data", ":">> \o ToText(enc.mimeType) \o <<";", "base64", ",">> \o ToText(enc.base64)

\* the header and the payload on either side of the first comma
HeaderOf(url) ==
    LET k == IndexOf(url, ",", 1) IN IF k = 0 THEN url ELSE SubSeq(url, 1, k - 1)
PayloadOf(url) ==
    LET k == IndexOf(url, ",", 1) IN
    IF k = 0 THEN Undefined ELSE SubSeq(url, k + 1, Len(url))

Separators == {":", ";", ","}

\* data:<type>;base64,<payload> with a non-empty type that has no parameters
WellFormedDataUrl(url) ==
    /\ Len(url) >= 6
    /\ SubSeq(url, 1, 2) = <<"data", ":">>
    /\ url[3] \notin Separators
    /\ SubSeq(url, 4, 6) = <<";", "base64", ",">>
    /\ \A k \in 7..Len(url) : url[k] \notin Separators

\* data:;base64,<payload>
NamesNoType(url) == Len(url) >= 3 /\ SubSeq(url, 1, 3) = <<"data", ":", ";">>

Encoded == {requests[i].enc : i \in {k \in DOMAIN requests : requests[k].stage = "calling"}}

\* C10 as stated: for every file read successfully, dataUrl is
\* "data:" + mimeType + ";base64," + base64, and its header and payload give
\* back that mimeType and that base64.
C10_Original ==
    \A enc \in Encoded :
        /\ enc.dataUrl = Composed(enc)
        /\ MatchMime(HeaderOf(enc.dataUrl)) = enc.mimeType
        /\ PayloadOf(enc.dataUrl) = enc.base64

\* C10 amended: for every file read successfully whose data URL has the form
\* data:<type>;base64,<payload> with a non-empty, parameter-free type, dataUrl
\* is "data:" + mimeType + ";base64," + base64, and its header and payload
\* give back that mimeType and that base64; when the data URL names no type
\* ("data:;base64,..." or the bare "data:") mimeType is
\* application/octet-stream.
C10_WellFormedRoundTrip ==
    \A enc \in Encoded :
        /\ WellFormedDataUrl(enc.dataUrl)
              => /\ enc.dataUrl = Composed(enc)
                 /\ enc.mimeType = <<enc.dataUrl[3]>>
                 /\ PayloadOf(enc.dataUrl) = enc.base64
        /\ (enc.dataUrl = <<"data", ":">> \/ NamesNoType(enc.dataUrl))
              => enc.mimeType = OctetStream

\* the png has been encoded for a request: type and payload are both there
C10_Witness ==
    \E enc \in Encoded :
        /\ enc.dataUrl = <<"data", ":", "image/png", ";", "base64", ",", "QUJD">>
        /\ enc.mimeType = <<"image/png">>
        /\ enc.base64 = <<"QUJD">>

\* C11: when an attempt ends with the Edit Client rejecting, generatedImage
\* is null, error is a non-empty message and isLoading is false.
C11_FailureClearsResult ==
    [][ \A i \in DOMAIN requests :
           (requests[i].stage = "calling" /\ requests' # requests)
              => \A o \in ApiOutcomes :
                    (~(o.ok /\ HasInline(PartsOf(o.response))) /\ ApiSettled(i, o))
                       => /\ generatedImage' = Null
                          /\ error' \notin {Null, Undefined, <<>>}
                          /\ isLoading' = FALSE ]_vars

\* the Edit Client has rejected: the error is shown beside the controls and
\* no result is displayed
C11_Witness ==
    /\ error = GenerationFailedMsg
    /\ generatedImage = Null
    /\ ~isLoading
    /\ requests = <<>>
    /\ ControlsRendered
    /\ uploadedImageFile = PngFile
    /\ reads = <<>>

\* C12: every handleGenerate call that passes validation leaves isLoading
\* true, error null and generatedImage null, whatever was displayed before.
C12_LoadingClearsErrorAndResult ==
    [][ (HandleGenerate /\ uploadedImageFile # Null /\ Trim(prompt) # <<>>)
           => /\ isLoading' = TRUE
              /\ error' = Null
              /\ generatedImage' = Null
              /\ Len(requests') = Len(requests) + 1 ]_vars

\* an attempt has just been dispatched for the file whose selection is still
\* being read
C12_Witness ==
    /\ isLoading
    /\ error = Null
    /\ generatedImage = Null
    /\ Len(requests) = 1
    /\ requests[1].stage = "reading"
    /\ requests[1].file = uploadedImageFile
    /\ reads = <<uploadedImageFile>>

\* C13: in every state the page can reach, isLoading is true if and only if
\* a generate attempt (its file re-read or its API call) is in flight.
C13_LoadingIffInFlight == isLoading <=> (requests # <<>>)

\* an attempt is waiting for its file re-read, and Loading is shown
C13_Witness ==
    /\ isLoading
    /\ Len(requests) = 1
    /\ requests[1].stage = "reading"
    /\ reads = <<>>
    /\ ControlsRendered

\* C14 as stated: a generated result and an error are never both present.
C14_Original == generatedImage # Null => error = Null

\* C14 amended: a generated result is never present together with an error of
\* a generate attempt or of the validation; the only error that can accompany
\* it is the read error of handleFileChange.
C14_ResultOnlyWithReadError ==
    generatedImage # Null => error \in {Null, CouldNotReadMsg}

\* a result is displayed together with the read error of a later selection
C14_Witness ==
    /\ generatedImage # Null
    /\ error = CouldNotReadMsg
    /\ ~isLoading
    /\ requests = <<>>
    /\ reads = <<>>

\* request i settles in a way that handleGenerate shows: a result, or an error
ShowsOutcome(i) ==
    \/ \E o \in AllReadOutcomes : GenerateReadSettled(i, o) /\ ~o.ok
    \/ \E o \in ApiOutcomes : ApiSettled(i, o)

\* C15 (its second half, which the first implies): a request dispatched for
\* an earlier file never makes its result or its error appear after a newer
\* file has been selected.
C15_StaleOutcomeDisregarded ==
    [][ \A i \in DOMAIN requests :
           (requests[i].file # uploadedImageFile /\ requests' # requests /\ ShowsOutcome(i))
              => (generatedImage' = generatedImage /\ error' = error) ]_vars

\* C16: once every pending file read has completed, the preview shown is the
\* data URL of uploadedImageFile, the file that generate will send.
C16_PreviewOfCurrentFile ==
    (reads = <<>> /\ uploadedImageFile # Null /\ uploadedImagePreview # Null)
        => uploadedImagePreview \in ReadAsDataURL(uploadedImageFile)

=============================================================================
